---- MODULE Spec2Model ----
(***************************************************************************)
(* Model of the Text-to-SQL LangGraph workflow: the GraphState record, the *)
(* seven agent nodes, the three routing helpers and the driver             *)
(* process_question_stream, which runs the compiled graph once through     *)
(* astream_events and once more through ainvoke.                           *)
(*                                                                         *)
(* Text is modelled as a sequence of tokens: the empty string is <<>>,     *)
(* concatenation is \o, Python truthiness of a string is Len(t) > 0.       *)
(***************************************************************************)
EXTENDS Integers, Sequences, FiniteSets, TLC

VARIABLES
    ceiling,      \* the configured MAX_SQL_RETRY_ATTEMPTS of this deployment
    phase,        \* "stream" (astream_events), "invoke" (ainvoke), "final", "error"
    node,         \* the node the graph runs next, or END
    state,        \* the GraphState of the current graph run
    steps,        \* node executions of the current graph run
    invoked,      \* per node: invocations in the current graph run
    generated,    \* statements produced by SQLGen in the current graph run
    corrections,  \* corrected statements produced by Correct in the current run
    execFailures, \* Execute invocations of the current run that ended with an error
    backendCalls, \* model-backend calls made in the current graph run
    grResp,       \* the last Guardrails classification of the current run
    lastStage,    \* the node executed by the last step of the current run
    connections,  \* store connections currently open
    acquired,     \* store connections obtained so far in the current run
    execOutcome,  \* the exit taken by the last Execute of the current run
    events,       \* the events process_question_stream has yielded in the turn
    turnInvoked,  \* per node, how often it was executed in the turn
    failure,      \* the node whose execution raised, "none" if none did
    dbExists,     \* whether the database file exists during the turn
    oracle,       \* the model backend: any answer at all, or a fixed function
    path,         \* the nodes executed so far in the current run, in order
    streamRun,    \* the streamed run as it ended, when it is remembered
    turns,        \* concurrent turns: per turn its position and its state reference
    heap,         \* concurrent turns: the state dictionaries, by reference
    llm_instance, \* concurrent turns: the module-level backend client
    lastTurn      \* concurrent turns: the turn that took the last step

runVars == <<ceiling, phase, node, state, steps, invoked, generated, corrections,
          execFailures, backendCalls, grResp, lastStage,
          connections, acquired, execOutcome, events, turnInvoked, failure,
             dbExists, oracle, path, streamRun>>

turnVars == <<turns, heap, llm_instance, lastTurn>>

vars == <<runVars, turnVars>>

----------------------------------------------------------------------------
(* Bounds and program constants *)

\* the configured ceilings explored: 0..MaxCeiling
MaxCeiling == 4

\* config.py: the shipped value of the ceiling read by error_correction_agent
MAX_SQL_RETRY_ATTEMPTS == 3

\* helpers.py: the literal should_retry compares curr_iteration with
RouterRetryLimit == 3

\* streaming.py: config={"recursion_limit": 50} of astream_events
StreamRecursionLimit == 50

\* streaming.py: ainvoke is given no config, so the graph library's default
\* recursion limit applies to the second run
InvokeRecursionLimit == 25

Ceilings == 0..MaxCeiling

END == "__end__"

Nodes == {"guardrails_agent", "sql_generation_agent", "execute_sql",
          "error_correction_agent", "analysis_agent",
          "decide_visualization_agent", "visualization_agent"}

----------------------------------------------------------------------------
(* Text helpers (Python str methods on token sequences) *)

WS == " "

Truthy(t) == Len(t) > 0

Contains(t, tok) == \E i \in 1..Len(t) : t[i] = tok

RECURSIVE LStrip(_)
LStrip(t) == IF t # <<>> /\ Head(t) = WS THEN LStrip(Tail(t)) ELSE t

RECURSIVE RStrip(_)
RStrip(t) ==
    IF t # <<>> /\ t[Len(t)] = WS THEN RStrip(SubSeq(t, 1, Len(t) - 1)) ELSE t

Strip(t) == RStrip(LStrip(t))

Replace(t, tok) == SelectSeq(t, LAMBDA x : x # tok)

\* q.split(sep): the fragments between separators, empty ones included
RECURSIVE Split(_, _)
Split(t, sep) ==
    IF ~Contains(t, sep) THEN <<t>>
    ELSE LET i == CHOOSE k \in 1..Len(t) :
                      t[k] = sep /\ \A j \in 1..(k - 1) : t[j] # sep
         IN <<SubSeq(t, 1, i - 1)>> \o Split(SubSeq(t, i + 1, Len(t)), sep)

\* sep.join(parts)
RECURSIVE Join(_, _)
Join(parts, sep) ==
    IF parts = <<>> THEN <<>>
    ELSE IF Len(parts) = 1 THEN parts[1]
    ELSE parts[1] \o <<sep>> \o Join(Tail(parts), sep)

\* The markdown fences the agents strip from a generated statement
FenceSql == "[fence sql]"

Fence == "[fence]"

\* response.sql_query.strip().replace(FenceSql, "").replace(Fence, "").strip()
CleanSql(t) == Strip(Replace(Replace(Strip(t), FenceSql), Fence))

----------------------------------------------------------------------------
(* The data store, at its interface: what cursor.execute / fetchall give   *)
(* for one fragment.  A fragment naming a missing table or column raises   *)
(* sqlite3.Error; the others return rows or no rows.                       *)

Semi == ";"

SelectRows == "SELECT name, total FROM t"

SelectEmpty == "SELECT name FROM t WHERE 1 = 0"

BadTable == "SELECT x FROM missing_table"

BadColumn == "SELECT missing_column FROM t"

\* a statement cursor.execute rejects with an exception that is no sqlite3.Error
NulQuery == "SELECT [NUL]"

StoreExecute(query) ==
    IF Contains(query, NulQuery)
    THEN [kind |-> "unexpected", text |-> "the query contains a null character"]
    ELSE IF Contains(query, BadTable)
    THEN [kind |-> "error", text |-> "no such table: missing_table"]
    ELSE IF Contains(query, BadColumn)
    THEN [kind |-> "error", text |-> "no such column: missing_column"]
    ELSE IF Contains(query, SelectRows)
    THEN [kind |-> "rows", table |-> "name total / a 1 / b 2"]
    ELSE [kind |-> "norows"]

----------------------------------------------------------------------------
(* GraphState and the fixed texts of the agents *)

InitialState(user_query) ==
    [ user_query                |-> user_query,
      is_question_relavant      |-> FALSE,
      sql_query_generated       |-> <<>>,
      result_for_sql_query      |-> <<>>,
      final_answer              |-> <<>>,
      error_message             |-> <<>>,
      curr_iteration            |-> 0,
      needs_plotly_figure       |-> FALSE,
      type_of_plotly_figure     |-> "none",
      plotly_figure_json_string |-> <<>> ]

UserQueries == {<<"Hello">>, <<"top 5 products by revenue">>}

GreetingReply == <<"Hello! How can I assist you with e-commerce data today?">>

RefusalReply ==
    <<"I'm sorry, but your question is outside the scope of the e-commerce database I have access to. ",
      "Please ask something related to products, users, orders, inventory, or sales analytics.">>

Apology(attempts, error_message) ==
    <<"I apologize, but I'm unable to generate a correct SQL query for your question after ",
      ToString(attempts), " attempts. ", "The error encountered was: ">>
    \o error_message
    \o <<"[newline][newline]",
         "Please try rephrasing your question or contact support for assistance.">>

NoResultsFound == "No results found."

NoRowsReturned == "[newline][newline]Result: No rows returned"

NoResultsAtAll == "Query executed successfully but returned no results."

Delimiter == "================================================================================"

BlankLine == "[newline][newline]"

\* "No results found" in query_result
HasNoResultsMarker(query_result) == Contains(query_result, NoResultsFound)

----------------------------------------------------------------------------
(* Responses of the model backend, one set per structured-output schema *)

GuardrailsResponses ==
    [is_question_relavant : BOOLEAN, is_greeting : BOOLEAN]

SqlResponses ==
    { <<>>,
      <<SelectRows>>,
      <<SelectEmpty>>,
      <<BadTable>>,
      <<BadColumn>>,
      <<FenceSql, SelectRows, Fence, WS>>,
      <<SelectRows, Semi, WS, SelectEmpty, Semi>>,
      <<SelectEmpty, Semi, SelectEmpty>>,
      <<SelectRows, Semi, BadTable>>,
      <<SelectRows, Semi, BadTable, Semi, SelectEmpty>>,
      <<SelectRows, Semi, NulQuery>> }

AnalysisResponses ==
    [natural_language_answer : {<<>>, <<"The answer.">>},
     key_insights : {<<>>, <<"first insight", "second insight">>},
     needs_visualization : BOOLEAN]

ChartTypes == {"bar", "line", "pie", "scatter", "none"}

\* visualization_type is declared str: the backend may answer outside the taxonomy
VisualizationDecisionResponses ==
    [needs_visualization : BOOLEAN,
     visualization_type : ChartTypes \cup {"heatmap"}]

\* generation, interpretation of the generated program, and the fig lookup
VisualizationOutcomes == {"backend_failed", "exec_failed", "no_fig", "fig"}

FigureJson == <<"{plotly figure json}">>

\* a backend that may give any answer, and may fail, at every call
FreeBackend == [kind |-> "free"]

\* the statement a deterministic backend returns for a failed statement
Correction(fix, sql_query) ==
    IF fix = "same" THEN sql_query
    ELSE IF fix = "rename" /\ Contains(sql_query, BadTable) THEN <<BadColumn>>
    ELSE <<SelectRows>>

\* backends that are a function of the prompt: the same answer to the same
\* call, and a failure, if any, always at the same stage
Oracles ==
    [kind : {"fixed"},
     guardrails : {[is_question_relavant |-> TRUE, is_greeting |-> FALSE],
                   [is_question_relavant |-> FALSE, is_greeting |-> TRUE]},
     sql : {<<SelectRows>>, <<BadTable>>, <<SelectRows, Semi, NulQuery>>},
     fix : {"repair", "rename", "same"},
     analysis : {[natural_language_answer |-> <<"The answer.">>,
                  key_insights |-> <<>>,
                  needs_visualization |-> TRUE]},
     decision : {[needs_visualization |-> TRUE, visualization_type |-> "bar"],
                 [needs_visualization |-> FALSE, visualization_type |-> "none"]},
     chart : {"fig", "exec_failed"},
     fails : {"none", "guardrails_agent", "sql_generation_agent",
              "error_correction_agent", "analysis_agent",
              "decide_visualization_agent"}]

\* whether the backend call of node n can raise
BackendFails(n) ==
    IF oracle.kind = "free" THEN TRUE ELSE oracle.fails = n

GuardrailsAnswers ==
    IF oracle.kind = "free" THEN GuardrailsResponses
    ELSE IF BackendFails("guardrails_agent") THEN {}
    ELSE {oracle.guardrails}

SqlAnswers ==
    IF oracle.kind = "free" THEN SqlResponses
    ELSE IF BackendFails("sql_generation_agent") THEN {}
    ELSE {oracle.sql}

CorrectionAnswers(s) ==
    IF oracle.kind = "free" THEN SqlResponses
    ELSE IF BackendFails("error_correction_agent") THEN {}
    ELSE {Correction(oracle.fix, s.sql_query_generated)}

AnalysisAnswers ==
    IF oracle.kind = "free" THEN AnalysisResponses
    ELSE IF BackendFails("analysis_agent") THEN {}
    ELSE {oracle.analysis}

DecisionAnswers ==
    IF oracle.kind = "free" THEN VisualizationDecisionResponses
    ELSE IF BackendFails("decide_visualization_agent") THEN {}
    ELSE {oracle.decision}

ChartOutcomes ==
    IF oracle.kind = "free" THEN VisualizationOutcomes ELSE {oracle.chart}

----------------------------------------------------------------------------
(* The agent nodes as state transformers *)

\* mutant: a greeting on a relevant question gets no reply
guardrails_agent_greeting_unanswered(s, response) ==
    LET s1 == [s EXCEPT !.is_question_relavant = response.is_question_relavant]
    IN  IF ~s1.is_question_relavant
        THEN [s1 EXCEPT !.final_answer =
                 IF response.is_greeting THEN GreetingReply ELSE RefusalReply]
        ELSE s1

\* mutant: the out-of-scope branch forgets to write the refusal
guardrails_agent_no_refusal(s, response) ==
    LET s1 == [s EXCEPT !.is_question_relavant = response.is_question_relavant]
    IN  IF response.is_greeting
        THEN [s1 EXCEPT !.final_answer = GreetingReply]
        ELSE s1

guardrails_agent(s, response) ==
    LET s1 == [s EXCEPT !.is_question_relavant = response.is_question_relavant]
    IN  IF response.is_greeting
        THEN [s1 EXCEPT !.final_answer = GreetingReply]
        ELSE IF ~s1.is_question_relavant
        THEN [s1 EXCEPT !.final_answer = RefusalReply]
        ELSE s1

sql_generation_agent(s, response) ==
    [s EXCEPT !.sql_query_generated = CleanSql(response),
              !.curr_iteration = s.curr_iteration + 1]

\* mutant: the empty fragments are kept
Queries_keeps_empty(sql_query) ==
    LET kept == Split(sql_query, Semi)
    IN  [i \in 1..Len(kept) |-> Strip(kept[i])]

\* [q.strip() for q in sql_query.split(";") if q.strip()]
Queries(sql_query) ==
    LET kept == SelectSeq(Split(sql_query, Semi), LAMBDA q : Truthy(Strip(q)))
    IN  [i \in 1..Len(kept) |-> Strip(kept[i])]

\* the text appended to all_results for fragment idx (0-based, as enumerate)
ResultText(queries, idx, out) ==
    LET query == queries[idx + 1]
    IN  IF out.kind = "rows"
        THEN IF Len(queries) > 1
             THEN <<"Query ", ToString(idx + 1), ":[newline]">> \o query
                  \o <<"[newline][newline]Result:[newline]", out.table>>
             ELSE <<out.table>>
        ELSE IF Len(queries) > 1
             THEN <<"Query ", ToString(idx + 1), ":[newline]">> \o query
                  \o <<NoRowsReturned>>
             ELSE <<NoResultsFound>>

\* mutant: a failing fragment is skipped and the loop goes on
RECURSIVE RunQueries_skips_failures(_, _, _, _)
RunQueries_skips_failures(queries, idx, all_results, sent) ==
    IF idx >= Len(queries)
    THEN [raised |-> FALSE, all_results |-> all_results, sent |-> sent]
    ELSE LET query == queries[idx + 1]
             out == StoreExecute(query)
         IN  IF out.kind \in {"error", "unexpected"}
             THEN RunQueries_skips_failures(queries, idx + 1, all_results,
                                            Append(sent, query))
             ELSE RunQueries_skips_failures(queries, idx + 1,
                             Append(all_results, ResultText(queries, idx, out)),
                             Append(sent, query))

\* mutant: every fragment is sent to the store before the first error is raised
RunQueries_runs_all(queries, idx, all_results, sent) ==
    LET failing == {i \in 1..Len(queries) :
                       StoreExecute(queries[i]).kind \in {"error", "unexpected"}}
    IN  IF failing = {}
        THEN [raised |-> FALSE,
              all_results |-> [i \in 1..Len(queries) |->
                  ResultText(queries, i - 1, StoreExecute(queries[i]))],
              sent |-> queries]
        ELSE LET first == CHOOSE i \in failing : \A j \in failing : i <= j
                 out == StoreExecute(queries[first])
             IN  [raised |-> TRUE, kind |-> out.kind, text |-> out.text,
                  sent |-> queries]

\* the for loop over the fragments; a store error leaves the loop at once.
\* sent: the fragments cursor.execute was called with, in call order
RECURSIVE RunQueries(_, _, _, _)
RunQueries(queries, idx, all_results, sent) ==
    IF idx >= Len(queries)
    THEN [raised |-> FALSE, all_results |-> all_results, sent |-> sent]
    ELSE LET query == queries[idx + 1]
             out == StoreExecute(query)
         IN  IF out.kind \in {"error", "unexpected"}
             THEN [raised |-> TRUE, kind |-> out.kind, text |-> out.text,
                   sent |-> Append(sent, query)]
             ELSE RunQueries(queries, idx + 1,
                             Append(all_results, ResultText(queries, idx, out)),
                             Append(sent, query))

\* mutant: a statement without fragments gives an empty result text
FormatResults_empty(all_results) ==
    IF all_results # <<>>
    THEN <<BlankLine, Delimiter>> \o Join(all_results, BlankLine)
    ELSE <<>>

\* "\n\n" + "=" * 80 + "\n\n".join(all_results)
FormatResults(all_results) ==
    IF all_results # <<>>
    THEN <<BlankLine, Delimiter>> \o Join(all_results, BlankLine)
    ELSE <<NoResultsAtAll>>

\* mutant: the handler for unexpected errors records nothing
execute_sql_swallows_unexpected(s, db_exists) ==
    IF ~db_exists
    THEN [s EXCEPT !.error_message = <<>>,
                   !.result_for_sql_query = <<>>]
    ELSE LET run == RunQueries(Queries(s.sql_query_generated), 0, <<>>, <<>>)
         IN  IF run.raised /\ run.kind = "error"
             THEN [s EXCEPT !.error_message = <<"SQL Execution Error: ", run.text>>,
                            !.result_for_sql_query = <<>>]
             ELSE IF run.raised
             THEN [s EXCEPT !.error_message = <<>>,
                            !.result_for_sql_query = <<>>]
             ELSE [s EXCEPT !.result_for_sql_query = FormatResults(run.all_results),
                            !.error_message = <<>>]

\* db_exists: whether get_connection finds the database file
execute_sql(s, db_exists) ==
    IF ~db_exists
    THEN [s EXCEPT !.error_message = <<"Unexpected Error: ", "Database not found">>,
                   !.result_for_sql_query = <<>>]
    ELSE LET run == RunQueries(Queries(s.sql_query_generated), 0, <<>>, <<>>)
         IN  IF run.raised /\ run.kind = "error"
             THEN [s EXCEPT !.error_message = <<"SQL Execution Error: ", run.text>>,
                            !.result_for_sql_query = <<>>]
             ELSE IF run.raised
             THEN [s EXCEPT !.error_message = <<"Unexpected Error: ", run.text>>,
                            !.result_for_sql_query = <<>>]
             ELSE [s EXCEPT !.result_for_sql_query = FormatResults(run.all_results),
                            !.error_message = <<>>]

\* which exit of the try statement an Execute takes
ExecuteOutcome(s, db_exists) ==
    IF ~db_exists THEN "no_connection"
    ELSE LET run == RunQueries(Queries(s.sql_query_generated), 0, <<>>, <<>>)
         IN  IF ~run.raised THEN "ok"
             ELSE IF run.kind = "error" THEN "store_error"
             ELSE "unexpected"

\* mutant: no finally clause, the connection is closed on the success path only
ConnectionClosed_no_finally(db_exists, outcome) ==
    db_exists /\ outcome = "ok"

\* whether the connection get_connection returned is closed when Execute
\* returns: conn.close() at the end of the try block, and again in finally
\* whenever conn is bound
ConnectionClosed(db_exists, outcome) ==
    LET conn_in_locals == db_exists
        closed_in_try == db_exists /\ outcome = "ok"
        closed_in_finally == conn_in_locals
    IN  closed_in_try \/ closed_in_finally

\* mutant: the guard clause fires one attempt too late
RetryLimitExceeded_late(s, max_attempts) == s.curr_iteration > max_attempts + 1

\* the guard clause of Correct: iteration > MAX_SQL_RETRY_ATTEMPTS
RetryLimitExceeded(s, max_attempts) == s.curr_iteration > max_attempts

error_correction_give_up(s, max_attempts) ==
    [s EXCEPT !.final_answer = Apology(max_attempts, s.error_message)]

\* mutant: a correction does not count as an attempt
error_correction_fix_uncounted(s, response) ==
    [s EXCEPT !.sql_query_generated = CleanSql(response),
              !.error_message = <<>>]

\* mutant: a correction also reports itself in the final answer
error_correction_fix_answers(s, response) ==
    [s EXCEPT !.sql_query_generated = CleanSql(response),
              !.error_message = <<>>,
              !.curr_iteration = s.curr_iteration + 1,
              !.final_answer = <<"The query was corrected.">>]

error_correction_fix(s, response) ==
    [s EXCEPT !.sql_query_generated = CleanSql(response),
              !.error_message = <<>>,
              !.curr_iteration = s.curr_iteration + 1]

\* mutant: Analysis consumes the error it reported
analysis_agent_clears_error(s, response) ==
    [s EXCEPT !.final_answer = <<response.natural_language_answer>>,
              !.needs_plotly_figure = response.needs_visualization,
              !.error_message = <<>>]

analysis_agent(s, response) ==
    LET insights == response.key_insights
        final_answer_parts ==
            <<response.natural_language_answer>>
            \o (IF insights # <<>>
                THEN <<<<"[newline][newline]**Key Insights:**">>>>
                     \o [i \in 1..Len(insights) |->
                            <<ToString(i), ". ", insights[i]>>]
                ELSE <<>>)
    IN  [s EXCEPT !.final_answer = Join(final_answer_parts, "[newline]"),
                  !.needs_plotly_figure = response.needs_visualization]

\* mutant: the short-circuit no longer looks for the no-results marker
SkipVisualizationDecision_no_marker(s) ==
    \/ ~Truthy(s.result_for_sql_query)
    \/ Truthy(s.error_message)

\* not query_result or "No results found" in query_result or error_message
SkipVisualizationDecision(s) ==
    \/ ~Truthy(s.result_for_sql_query)
    \/ HasNoResultsMarker(s.result_for_sql_query)
    \/ Truthy(s.error_message)

\* mutant: the short-circuit leaves the hint of Analysis in place
decide_visualization_skip_keeps_hint(s) ==
    [s EXCEPT !.type_of_plotly_figure = "none"]

decide_visualization_skip(s) ==
    [s EXCEPT !.needs_plotly_figure = FALSE,
              !.type_of_plotly_figure = "none"]

decide_visualization_agent(s, response) ==
    [s EXCEPT !.needs_plotly_figure = response.needs_visualization,
              !.type_of_plotly_figure = response.visualization_type]

\* mutant: a failed chart generation also resets the chart type
visualization_agent_resets_type(s, outcome) ==
    IF outcome = "fig"
    THEN [s EXCEPT !.plotly_figure_json_string = FigureJson]
    ELSE [s EXCEPT !.plotly_figure_json_string = <<>>,
                   !.needs_plotly_figure = FALSE,
                   !.type_of_plotly_figure = "none"]

\* mutant: a failed chart generation leaves the chart flag as it was
visualization_agent_keeps_flag(s, outcome) ==
    IF outcome = "fig"
    THEN [s EXCEPT !.plotly_figure_json_string = FigureJson]
    ELSE [s EXCEPT !.plotly_figure_json_string = <<>>]

visualization_agent(s, outcome) ==
    IF outcome = "fig"
    THEN [s EXCEPT !.plotly_figure_json_string = FigureJson]
    ELSE [s EXCEPT !.plotly_figure_json_string = <<>>,
                   !.needs_plotly_figure = FALSE]

----------------------------------------------------------------------------
(* Routing helpers and the edges of the compiled graph *)

\* mutant: the router no longer looks at final_answer
check_relevance_ignores_answer(s) ==
    IF s.is_question_relavant THEN "relevant" ELSE "end"

check_relevance(s) ==
    IF Truthy(s.final_answer) THEN "end"
    ELSE IF s.is_question_relavant THEN "relevant"
    ELSE "end"

\* mutant: the router retries whenever there is an error
should_retry_unbounded(s) ==
    IF Truthy(s.error_message) THEN "retry" ELSE "success"

\* mutant: the router allows one retry more
should_retry_lenient(s) ==
    IF Truthy(s.error_message)
    THEN IF s.curr_iteration <= RouterRetryLimit + 1 THEN "retry" ELSE "end"
    ELSE "success"

\* mutant: off by one in the router's limit (< instead of <=)
should_retry_strict(s) ==
    IF Truthy(s.error_message)
    THEN IF s.curr_iteration < RouterRetryLimit THEN "retry" ELSE "end"
    ELSE "success"

should_retry(s) ==
    IF Truthy(s.error_message)
    THEN IF s.curr_iteration <= RouterRetryLimit THEN "retry" ELSE "end"
    ELSE "success"

\* mutant: the router no longer looks at the chart type
should_visualize_ignores_type(s) ==
    IF s.needs_plotly_figure THEN "visualize" ELSE "skip"

should_visualize(s) ==
    IF s.needs_plotly_figure /\ s.type_of_plotly_figure # "none"
    THEN "visualize"
    ELSE "skip"

EntryPoint == "guardrails_agent"

AfterGuardrails(route) ==
    IF route = "relevant" THEN "sql_generation_agent" ELSE END

\* mutant: the generated statement is analysed without being executed
AfterSqlGeneration_to_analysis == "analysis_agent"

AfterSqlGeneration == "execute_sql"

AfterExecute(route) ==
    IF route = "retry" THEN "error_correction_agent" ELSE "analysis_agent"

\* mutant: error correction is followed by Analysis
AfterErrorCorrection_to_analysis == "analysis_agent"

AfterErrorCorrection == "execute_sql"

AfterAnalysis == "decide_visualization_agent"

AfterDecideVisualization(route) ==
    IF route = "visualize" THEN "visualization_agent" ELSE END

AfterVisualization == END

----------------------------------------------------------------------------
(* process_question_stream: the graph is run by astream_events with        *)
(* recursion_limit 50 and then, from the same initial_state, by ainvoke    *)
(* with the library's default limit; any exception ends the turn with an   *)
(* error event.  Each node action is the node followed by its edge.        *)

NoClassification ==
    [answered |-> FALSE, is_question_relavant |-> FALSE, is_greeting |-> FALSE]

Classification(response) ==
    [answered |-> TRUE,
     is_question_relavant |-> response.is_question_relavant,
     is_greeting |-> response.is_greeting]

Running == phase \in {"stream", "invoke"}

RecursionLimit ==
    IF phase = "stream" THEN StreamRecursionLimit ELSE InvokeRecursionLimit

CanRun(n) == Running /\ node = n /\ steps < RecursionLimit

RanNode(n, calls) ==
    /\ steps' = steps + 1
    /\ invoked' = [invoked EXCEPT ![n] = @ + 1]
    /\ backendCalls' = backendCalls + calls
    /\ lastStage' = n
    /\ turnInvoked' = [turnInvoked EXCEPT ![n] = @ + 1]
    /\ path' = Append(path, n)
    /\ UNCHANGED <<oracle, streamRun>>
    /\ UNCHANGED turnVars

\* a node other than Execute: the store is not touched
Ran(n, calls) ==
    /\ RanNode(n, calls)
    /\ UNCHANGED <<connections, acquired, execOutcome>>

NodeStart(n) == [type |-> "node_start", node |-> n]
NodeEnd(n) == [type |-> "node_end", node |-> n]
FinalEvent == [type |-> "final", node |-> ""]
ErrorEvent == [type |-> "error", node |-> ""]

\* mutant: on_chain_start is not forwarded
StreamedEvents_no_start(p, n, completed) ==
    IF p # "stream" THEN <<>>
    ELSE IF completed THEN <<NodeEnd(n)>> ELSE <<>>

\* what the async for loop yields for one execution of node n: on_chain_start
\* and, unless the node raised, on_chain_end; ainvoke yields no node events
StreamedEvents(p, n, completed) ==
    IF p # "stream" THEN <<>>
    ELSE <<NodeStart(n)>> \o (IF completed THEN <<NodeEnd(n)>> ELSE <<>>)

\* the node returned its state update
Returned ==
    /\ phase' = phase
    /\ failure' = failure
    /\ events' = events \o StreamedEvents(phase, node, TRUE)

\* mutant: an exception of a node is dropped and the graph run goes on
Raised_continues ==
    /\ BackendFails(node)
    /\ phase' = phase
    /\ failure' = node
    /\ events' = events \o StreamedEvents(phase, node, FALSE)
    /\ UNCHANGED <<state, node>>

\* the node raised: the graph run stops and the except clause yields "error"
Raised ==
    /\ BackendFails(node)
    /\ phase' = "error"
    /\ failure' = node
    /\ events' = events \o StreamedEvents(phase, node, FALSE) \o <<ErrorEvent>>
    /\ UNCHANGED <<state, node>>

\* two calls of process_question_stream whose steps interleave
Turns == {"first", "second"}

NotStarted ==
    [phase |-> "new", node |-> EntryPoint, ref |-> 0,
     user_query |-> <<>>, backend |-> FreeBackend]

NoRun == [taken |-> FALSE, path |-> <<>>, state |-> InitialState(<<>>)]

\* the state of a turn when process_question_stream starts the streamed run
InitTurn ==
    /\ ceiling \in Ceilings
    /\ phase = "stream"
    /\ node = EntryPoint
    /\ state \in {InitialState(q) : q \in UserQueries}
    /\ steps = 0
    /\ invoked = [n \in Nodes |-> 0]
    /\ generated = 0
    /\ corrections = 0
    /\ execFailures = 0
    /\ backendCalls = 0
    /\ grResp = NoClassification
    /\ lastStage = "none"
    /\ connections = 0
    /\ acquired = 0
    /\ execOutcome = "none"
    /\ events = <<>>
    /\ turnInvoked = [n \in Nodes |-> 0]
    /\ failure = "none"
    /\ dbExists \in BOOLEAN
    /\ path = <<>>
    /\ streamRun = NoRun
    /\ turns = [t \in Turns |-> NotStarted]
    /\ heap = <<>>
    /\ llm_instance = "none"
    /\ lastTurn = "none"

Init ==
    /\ InitTurn
    /\ oracle = FreeBackend

\* the same turn with a backend that is a function of its prompt
InitDeterministic ==
    /\ InitTurn
    /\ oracle \in Oracles

Guardrails ==
    /\ CanRun("guardrails_agent")
    /\ \/ \E response \in GuardrailsAnswers :
            LET s2 == guardrails_agent(state, response)
            IN  /\ state' = s2
                /\ node' = AfterGuardrails(check_relevance(s2))
                /\ grResp' = Classification(response)
                /\ Returned
       \/ Raised /\ UNCHANGED grResp
    /\ Ran("guardrails_agent", 1)
    /\ UNCHANGED <<ceiling, dbExists, generated, corrections, execFailures>>

SQLGen ==
    /\ CanRun("sql_generation_agent")
    /\ \/ \E response \in SqlAnswers :
            /\ state' = sql_generation_agent(state, response)
            /\ node' = AfterSqlGeneration
            /\ generated' = generated + 1
            /\ Returned
       \/ Raised /\ UNCHANGED generated
    /\ Ran("sql_generation_agent", 1)
    /\ UNCHANGED <<ceiling, dbExists, corrections, execFailures, grResp>>

Execute ==
    /\ CanRun("execute_sql")
    /\ LET s2 == execute_sql(state, dbExists)
           outcome == ExecuteOutcome(state, dbExists)
           opened == IF dbExists THEN 1 ELSE 0
           closed == IF ConnectionClosed(dbExists, outcome) THEN opened ELSE 0
       IN  /\ state' = s2
           /\ node' = AfterExecute(should_retry(s2))
           /\ execFailures' =
                  execFailures + (IF Truthy(s2.error_message) THEN 1 ELSE 0)
           /\ connections' = connections + opened - closed
           /\ acquired' = acquired + opened
           /\ execOutcome' = outcome
    /\ RanNode("execute_sql", 0)
    /\ Returned
    /\ UNCHANGED <<ceiling, dbExists, generated, corrections, grResp>>

Correct ==
    /\ CanRun("error_correction_agent")
    /\ IF RetryLimitExceeded(state, ceiling)
       THEN /\ state' = error_correction_give_up(state, ceiling)
            /\ node' = AfterErrorCorrection
            /\ Ran("error_correction_agent", 0)
            /\ Returned
            /\ UNCHANGED corrections
       ELSE /\ \/ \E response \in CorrectionAnswers(state) :
                    /\ state' = error_correction_fix(state, response)
                    /\ node' = AfterErrorCorrection
                    /\ corrections' = corrections + 1
                    /\ Returned
               \/ Raised /\ UNCHANGED corrections
            /\ Ran("error_correction_agent", 1)
    /\ UNCHANGED <<ceiling, dbExists, generated, execFailures, grResp>>

Analysis ==
    /\ CanRun("analysis_agent")
    /\ \/ \E response \in AnalysisAnswers :
            /\ state' = analysis_agent(state, response)
            /\ node' = AfterAnalysis
            /\ Returned
       \/ Raised
    /\ Ran("analysis_agent", 1)
    /\ UNCHANGED <<ceiling, dbExists, generated, corrections, execFailures, grResp>>

VizDecide ==
    /\ CanRun("decide_visualization_agent")
    /\ IF SkipVisualizationDecision(state)
       THEN LET s2 == decide_visualization_skip(state)
            IN  /\ state' = s2
                /\ node' = AfterDecideVisualization(should_visualize(s2))
                /\ Ran("decide_visualization_agent", 0)
                /\ Returned
       ELSE /\ \/ \E response \in DecisionAnswers :
                    LET s2 == decide_visualization_agent(state, response)
                    IN  /\ state' = s2
                        /\ node' = AfterDecideVisualization(should_visualize(s2))
                        /\ Returned
               \/ Raised
            /\ Ran("decide_visualization_agent", 1)
    /\ UNCHANGED <<ceiling, dbExists, generated, corrections, execFailures, grResp>>

VizGen ==
    /\ CanRun("visualization_agent")
    /\ \E outcome \in ChartOutcomes :
            /\ state' = visualization_agent(state, outcome)
            /\ node' = AfterVisualization
    /\ Ran("visualization_agent", 1)
    /\ Returned
    /\ UNCHANGED <<ceiling, dbExists, generated, corrections, execFailures, grResp>>

\* mutant: the second run starts from the state the streamed run ended with
Restart_continued ==
    /\ phase = "stream"
    /\ node = END
    /\ phase' = "invoke"
    /\ node' = EntryPoint
    /\ state' = state
    /\ steps' = 0
    /\ invoked' = [n \in Nodes |-> 0]
    /\ generated' = 0
    /\ corrections' = 0
    /\ execFailures' = 0
    /\ backendCalls' = 0
    /\ grResp' = NoClassification
    /\ lastStage' = "none"
    /\ execOutcome' = "none"
    /\ acquired' = 0
    /\ path' = <<>>
    /\ UNCHANGED <<ceiling, dbExists, connections, events, turnInvoked, failure,
                   oracle>>
    /\ UNCHANGED turnVars

\* astream_events is exhausted: graph.ainvoke(initial_state) starts a second
\* run from the same initial_state
Restart ==
    /\ phase = "stream"
    /\ node = END
    /\ phase' = "invoke"
    /\ node' = EntryPoint
    /\ state' = InitialState(state.user_query)
    /\ steps' = 0
    /\ invoked' = [n \in Nodes |-> 0]
    /\ generated' = 0
    /\ corrections' = 0
    /\ execFailures' = 0
    /\ backendCalls' = 0
    /\ grResp' = NoClassification
    /\ lastStage' = "none"
    /\ execOutcome' = "none"
    /\ acquired' = 0
    /\ path' = <<>>
    /\ UNCHANGED <<ceiling, dbExists, connections, events, turnInvoked, failure,
                   oracle>>
    /\ UNCHANGED turnVars

StartInvoke ==
    /\ Restart
    /\ UNCHANGED streamRun

\* the same step, remembering how the streamed run ended
StartInvokeRecorded ==
    /\ Restart
    /\ streamRun' = [taken |-> TRUE, path |-> path, state |-> state]

\* ainvoke returned: the "final" event carries its state
YieldFinal ==
    /\ phase = "invoke"
    /\ node = END
    /\ phase' = "final"
    /\ events' = Append(events, FinalEvent)
    /\ UNCHANGED <<ceiling, dbExists, node, state, steps, invoked, generated, corrections,
                   execFailures, backendCalls, grResp, lastStage,
                   connections, acquired, execOutcome, turnInvoked, failure,
                   oracle, path, streamRun>>
    /\ UNCHANGED turnVars

\* the recursion limit is reached with a node still to run: GraphRecursionError
RecursionAbort ==
    /\ Running
    /\ node # END
    /\ steps >= RecursionLimit
    /\ phase' = "error"
    /\ events' = Append(events, ErrorEvent)
    /\ UNCHANGED <<ceiling, dbExists, node, state, steps, invoked, generated, corrections,
                   execFailures, backendCalls, grResp, lastStage,
                   connections, acquired, execOutcome, turnInvoked, failure,
                   oracle, path, streamRun>>
    /\ UNCHANGED turnVars

Next ==
    \/ Guardrails
    \/ SQLGen
    \/ Execute
    \/ Correct
    \/ Analysis
    \/ VizDecide
    \/ VizGen
    \/ StartInvoke
    \/ YieldFinal
    \/ RecursionAbort

Spec == Init /\ [][Next]_vars

NextDeterministic ==
    \/ Guardrails
    \/ SQLGen
    \/ Execute
    \/ Correct
    \/ Analysis
    \/ VizDecide
    \/ VizGen
    \/ StartInvokeRecorded
    \/ YieldFinal
    \/ RecursionAbort

\* one turn against a deterministic backend
SpecDeterministic == InitDeterministic /\ [][NextDeterministic]_vars

\* a turn on a relevant question with the database present, a backend that
\* may answer differently at every call and a ceiling below the router's limit
InitRecorded ==
    /\ Init
    /\ ceiling = 0
    /\ dbExists
    /\ state.user_query = <<"top 5 products by revenue">>

\* the same turn, remembering how the streamed run ended
SpecRecorded == InitRecorded /\ [][NextDeterministic]_vars

----------------------------------------------------------------------------
(* Two turns at once: each call of process_question_stream builds its own  *)
(* initial_state dictionary; the nodes of both turns run interleaved and   *)
(* share the module-level backend client and the database file.            *)

\* the backends the two turns are answered by
TurnBackends ==
    {o \in Oracles :
        /\ o.fails = "none"
        /\ o.guardrails.is_question_relavant
        /\ o.sql \in {<<SelectRows>>, <<BadTable>>}
        /\ o.fix = "rename"
        /\ o.chart = "fig"}

\* one node of the graph, with its edge, against backend o
NodeStep(s, n, o, db_exists, max_attempts) ==
    CASE n = "guardrails_agent" ->
           LET s2 == guardrails_agent(s, o.guardrails)
           IN  [state |-> s2, node |-> AfterGuardrails(check_relevance(s2))]
      [] n = "sql_generation_agent" ->
           [state |-> sql_generation_agent(s, o.sql), node |-> AfterSqlGeneration]
      [] n = "execute_sql" ->
           LET s2 == execute_sql(s, db_exists)
           IN  [state |-> s2, node |-> AfterExecute(should_retry(s2))]
      [] n = "error_correction_agent" ->
           [state |-> IF RetryLimitExceeded(s, max_attempts)
                      THEN error_correction_give_up(s, max_attempts)
                      ELSE error_correction_fix(
                               s, Correction(o.fix, s.sql_query_generated)),
            node |-> AfterErrorCorrection]
      [] n = "analysis_agent" ->
           [state |-> analysis_agent(s, o.analysis), node |-> AfterAnalysis]
      [] n = "decide_visualization_agent" ->
           LET s2 == IF SkipVisualizationDecision(s)
                     THEN decide_visualization_skip(s)
                     ELSE decide_visualization_agent(s, o.decision)
           IN  [state |-> s2,
                node |-> AfterDecideVisualization(should_visualize(s2))]
      [] n = "visualization_agent" ->
           [state |-> visualization_agent(s, o.chart), node |-> AfterVisualization]

\* the state a run of the graph ends with when nothing else runs
RECURSIVE RunAlone(_, _, _, _, _, _)
RunAlone(s, n, o, db_exists, max_attempts, limit) ==
    IF n = END \/ limit = 0
    THEN s
    ELSE LET r == NodeStep(s, n, o, db_exists, max_attempts)
         IN  RunAlone(r.state, r.node, o, db_exists, max_attempts, limit - 1)

\* mutant: one module-level dictionary serves every turn
NewReference_shared(h) == 1

\* initial_state = {...}: a new dictionary for every call
NewReference(h) == Len(h) + 1

\* the heap with state s stored under reference r
Stored(h, r, s) ==
    IF r = Len(h) + 1 THEN Append(h, s) ELSE [h EXCEPT ![r] = s]

\* the nodes that fetch the backend client with get_llm
UsesBackendClient(s, n) ==
    /\ n # "execute_sql"
    /\ ~(n = "error_correction_agent" /\ RetryLimitExceeded(s, ceiling))
    /\ ~(n = "decide_visualization_agent" /\ SkipVisualizationDecision(s))

InitConcurrent ==
    /\ InitTurn
    /\ oracle = FreeBackend
    /\ ceiling = MAX_SQL_RETRY_ATTEMPTS
    /\ state.user_query = <<"Hello">>

\* process_question_stream is called: the turn gets its initial_state
BeginTurn(t) ==
    /\ turns[t].phase = "new"
    /\ \E q \in UserQueries, o \in TurnBackends :
          LET r == NewReference(heap)
          IN  /\ heap' = Stored(heap, r, InitialState(q))
              /\ turns' = [turns EXCEPT ![t] =
                     [phase |-> "stream", node |-> EntryPoint, ref |-> r,
                      user_query |-> q, backend |-> o]]
    /\ lastTurn' = t
    /\ UNCHANGED llm_instance
    /\ UNCHANGED runVars

\* the next node of turn t runs on the turn's own state
StepTurn(t) ==
    /\ turns[t].phase \in {"stream", "invoke"}
    /\ turns[t].node # END
    /\ LET r == turns[t].ref
           step == NodeStep(heap[r], turns[t].node, turns[t].backend,
                            dbExists, ceiling)
       IN  /\ heap' = [heap EXCEPT ![r] = step.state]
           /\ turns' = [turns EXCEPT ![t].node = step.node]
           /\ llm_instance' = IF UsesBackendClient(heap[r], turns[t].node)
                               THEN "created"
                               ELSE llm_instance
    /\ lastTurn' = t
    /\ UNCHANGED runVars

\* the streamed run of turn t is over: ainvoke(initial_state)
RestartTurn(t) ==
    /\ turns[t].phase = "stream"
    /\ turns[t].node = END
    /\ heap' = [heap EXCEPT ![turns[t].ref] = InitialState(turns[t].user_query)]
    /\ turns' = [turns EXCEPT ![t].phase = "invoke", ![t].node = EntryPoint]
    /\ lastTurn' = t
    /\ UNCHANGED llm_instance
    /\ UNCHANGED runVars

\* ainvoke of turn t returned: the final event carries the turn's state
FinishTurn(t) ==
    /\ turns[t].phase = "invoke"
    /\ turns[t].node = END
    /\ turns' = [turns EXCEPT ![t].phase = "final"]
    /\ lastTurn' = t
    /\ UNCHANGED <<heap, llm_instance>>
    /\ UNCHANGED runVars

NextConcurrent ==
    \E t \in Turns :
        \/ BeginTurn(t)
        \/ StepTurn(t)
        \/ RestartTurn(t)
        \/ FinishTurn(t)

SpecConcurrent == InitConcurrent /\ [][NextConcurrent]_vars

TypeOK ==
    /\ ceiling \in Ceilings
    /\ phase \in {"stream", "invoke", "final", "error"}
    /\ node \in Nodes \cup {END}
    /\ steps \in 0..StreamRecursionLimit
    /\ state.curr_iteration \in 0..(RouterRetryLimit + 1)

----------------------------------------------------------------------------
(* Properties *)

AtEnd == node = END

\* a step of the graph that executes node n
Executes(n) == node = n /\ steps' = steps + 1

\* every Execute of the current run has failed, and there was at least one
EveryExecuteFailed ==
    invoked["execute_sql"] >= 1 /\ execFailures = invoked["execute_sql"]

\* C1: whenever Guardrails classified the question as not relevant (greeting
\* or not), the run is at End directly after Guardrails, sqlQuery is empty,
\* finalAnswer is non-empty and neither SQLGen nor Execute was invoked.
C1_NonRelevantEndsAfterGuardrails ==
    (grResp.answered /\ ~grResp.is_question_relavant) =>
        /\ AtEnd
        /\ lastStage = "guardrails_agent"
        /\ steps = 1
        /\ state.sql_query_generated = <<>>
        /\ Truthy(state.final_answer)
        /\ invoked["sql_generation_agent"] = 0
        /\ invoked["execute_sql"] = 0

C1_Witness ==
    /\ phase = "final"
    /\ grResp.answered /\ ~grResp.is_question_relavant /\ ~grResp.is_greeting
    /\ state.final_answer = RefusalReply

\* C2: with the default ceiling, a run that reached End with every Execute
\* failed has invoked Execute exactly ceiling + 1 = 4 times, produced exactly
\* 3 corrections and ends with retryCount = 4 > ceiling.
C2_ExhaustedRunCounts ==
    (ceiling = MAX_SQL_RETRY_ATTEMPTS /\ AtEnd /\ EveryExecuteFailed) =>
        /\ invoked["execute_sql"] = ceiling + 1
        /\ invoked["execute_sql"] = 4
        /\ corrections = 3
        /\ state.curr_iteration = 4
        /\ state.curr_iteration > ceiling

C2_Witness ==
    /\ ceiling = MAX_SQL_RETRY_ATTEMPTS
    /\ phase = "final"
    /\ EveryExecuteFailed
    /\ invoked["execute_sql"] = 4

\* C3 (as claimed): when retries are exhausted, i.e. the run is at End and
\* its last Execute failed, finalAnswer is the apology naming the attempt
\* count and containing the last execution error.
C3_ExhaustionApology ==
    (AtEnd /\ invoked["execute_sql"] >= 1 /\ Truthy(state.error_message)) =>
        state.final_answer = Apology(ceiling, state.error_message)

\* C4 (as claimed): for every configured ceiling R, while every Execute fails
\* the Execute<->Correct cycle takes at most R + 1 Execute invocations and
\* the run is never aborted by the step limit.
C4_CycleBoundedByGuard ==
    EveryExecuteFailed =>
        /\ invoked["execute_sql"] <= ceiling + 1
        /\ ~(phase = "error" /\ steps >= RecursionLimit)

\* C5 (as claimed): a Correct step taken with retryCount > R makes no backend
\* call, writes the apology, leaves sqlQuery, errorMessage and retryCount
\* unchanged, and the next stage is Analysis.
C5_GuardRoutesToAnalysis ==
    [][(Executes("error_correction_agent") /\ state.curr_iteration > ceiling) =>
         /\ backendCalls' = backendCalls
         /\ state'.final_answer = Apology(ceiling, state.error_message)
         /\ state'.sql_query_generated = state.sql_query_generated
         /\ state'.error_message = state.error_message
         /\ state'.curr_iteration = state.curr_iteration
         /\ node' = "analysis_agent"]_vars

\* C6 (as claimed): after a failed Execute with retryCount = ceiling the next
\* stage is Correct and it takes its correcting path; after a failed Execute
\* with retryCount = ceiling + 1 no further correction is produced.
C6_RetryBoundary ==
    [][(Executes("execute_sql") /\ Truthy(state'.error_message)) =>
         /\ (state'.curr_iteration = ceiling =>
                /\ node' = "error_correction_agent"
                /\ ~RetryLimitExceeded(state', ceiling))
         /\ (state'.curr_iteration = ceiling + 1 =>
                \/ node' = "analysis_agent"
                \/ RetryLimitExceeded(state', ceiling))]_vars

\* C7: for every configured ceiling R, the statements produced in one run
\* (one by SQLGen plus one per correcting Correct) number at most R + 1.
C7_AtMostCeilingPlusOneStatements ==
    generated + corrections <= ceiling + 1

C7_Witness ==
    /\ generated + corrections = ceiling + 1
    /\ corrections >= 1
    /\ invoked["error_correction_agent"] > corrections
    /\ EveryExecuteFailed

\* C8 (as claimed): the successor of every Execute is Analysis if errorMessage
\* is empty, Correct if it is non-empty and retryCount <= the configured
\* ceiling, and Analysis if it is non-empty and retryCount > that ceiling.
C8_ExecuteSuccessors ==
    [][Executes("execute_sql") =>
         node' = (IF ~Truthy(state'.error_message) THEN "analysis_agent"
                  ELSE IF state'.curr_iteration <= ceiling
                       THEN "error_correction_agent"
                       ELSE "analysis_agent")]_vars

\* C9: SQLGen is invoked (or is the stage about to run) exactly when
\* Guardrails answered relevant and not greeting; after a greeting the run is
\* at End directly after Guardrails with the fixed greeting reply and an
\* empty sqlQuery, whatever isRelevant is.
C9_SqlGenIffRelevantNonGreeting ==
    /\ (node = "sql_generation_agent" \/ invoked["sql_generation_agent"] >= 1)
           <=> (grResp.answered /\ grResp.is_question_relavant
                                /\ ~grResp.is_greeting)
    /\ (grResp.answered /\ grResp.is_greeting) =>
            /\ AtEnd
            /\ lastStage = "guardrails_agent"
            /\ state.final_answer = GreetingReply
            /\ state.sql_query_generated = <<>>
            /\ state.is_question_relavant = grResp.is_question_relavant

C9_Witness ==
    /\ phase = "final"
    /\ grResp.answered /\ grResp.is_greeting /\ grResp.is_question_relavant
    /\ state.final_answer = GreetingReply

\* C10: a VizDecide step taken with queryResult empty, or holding the
\* no-results marker, or with errorMessage non-empty makes no backend call,
\* sets needsChart = false and chartType = none and goes to End; and in every
\* state in which VizDecide has run on such a result VizGen was not invoked.
C10_ShortCircuit ==
    /\ [][(Executes("decide_visualization_agent")
            /\ (\/ state.result_for_sql_query = <<>>
                \/ HasNoResultsMarker(state.result_for_sql_query)
                \/ state.error_message # <<>>)) =>
           /\ backendCalls' = backendCalls
           /\ phase' = phase
           /\ state'.needs_plotly_figure = FALSE
           /\ state'.type_of_plotly_figure = "none"
           /\ node' = END
           /\ invoked'["visualization_agent"] = 0]_vars
    /\ []((/\ invoked["decide_visualization_agent"] >= 1
           /\ (\/ state.result_for_sql_query = <<>>
               \/ HasNoResultsMarker(state.result_for_sql_query)
               \/ state.error_message # <<>>)) =>
            /\ invoked["visualization_agent"] = 0
            /\ node # "visualization_agent")

C10_Witness ==
    /\ phase = "final"
    /\ invoked["decide_visualization_agent"] = 1
    /\ HasNoResultsMarker(state.result_for_sql_query)
    /\ invoked["visualization_agent"] = 0

\* C11: VizGen is invoked exactly when, after VizDecide, needsChart is true
\* and chartType is not none; otherwise the run goes from VizDecide to End;
\* and after VizGen the run always goes to End.
C11_VizGenIffChartWanted ==
    /\ [][(Executes("decide_visualization_agent") /\ phase' = phase) =>
           /\ (node' = "visualization_agent") <=>
                  (state'.needs_plotly_figure
                   /\ state'.type_of_plotly_figure # "none")
           /\ node' \in {"visualization_agent", END}]_vars
    /\ [][Executes("visualization_agent") =>
           /\ node' = END
           /\ lastStage = "decide_visualization_agent"
           /\ state.needs_plotly_figure
           /\ state.type_of_plotly_figure # "none"]_vars
    /\ []((node = "visualization_agent" \/ invoked["visualization_agent"] >= 1) =>
            /\ invoked["decide_visualization_agent"] = 1
            /\ invoked["visualization_agent"] <= 1
            /\ state.type_of_plotly_figure # "none")

C11_Witness ==
    /\ phase = "final"
    /\ invoked["visualization_agent"] = 1
    /\ state.needs_plotly_figure
    /\ state.type_of_plotly_figure = "bar"

\* C12: whatever fails inside VizGen (backend call, running the generated
\* code, or no figure produced), the step does not abort the run: it goes to
\* End with chartSpecJSON empty and needsChart false, and finalAnswer,
\* sqlQuery, queryResult and errorMessage are as they were before VizGen.
C12_VizGenFailureContained ==
    /\ [](node = "visualization_agent" =>
            \A outcome \in VisualizationOutcomes \ {"fig"} :
                LET s2 == visualization_agent(state, outcome)
                IN  /\ s2.plotly_figure_json_string = <<>>
                    /\ s2.needs_plotly_figure = FALSE
                    /\ s2.final_answer = state.final_answer
                    /\ s2.sql_query_generated = state.sql_query_generated
                    /\ s2.result_for_sql_query = state.result_for_sql_query
                    /\ s2.error_message = state.error_message)
    /\ [][Executes("visualization_agent") =>
           /\ phase' = phase
           /\ node' = END
           /\ (state'.plotly_figure_json_string = <<>> =>
                    state'.needs_plotly_figure = FALSE)
           /\ state'.final_answer = state.final_answer
           /\ state'.sql_query_generated = state.sql_query_generated
           /\ state'.result_for_sql_query = state.result_for_sql_query
           /\ state'.error_message = state.error_message]_vars

C12_Witness ==
    /\ phase = "final"
    /\ lastStage = "visualization_agent"
    /\ state.plotly_figure_json_string = <<>>
    /\ state.needs_plotly_figure = FALSE
    /\ Truthy(state.final_answer)

\* the 1-based position of the first fragment the store rejects with a store
\* error while every fragment before it ran, or 0 when there is none
FirstStoreError(queries) ==
    LET failing == {i \in 1..Len(queries) :
                       /\ StoreExecute(queries[i]).kind = "error"
                       /\ \A j \in 1..(i - 1) :
                              StoreExecute(queries[j]).kind \in {"rows", "norows"}}
    IN  IF failing = {} THEN 0 ELSE CHOOSE i \in failing : TRUE

\* C13: an Execute step that got its connection and in which a fragment
\* fails in the store leaves errorMessage holding the store's error text,
\* queryResult empty, and sqlQuery and retryCount unchanged; one in which all
\* fragments succeed leaves errorMessage empty.
C13_ExecuteOutcome ==
    [][(Executes("execute_sql") /\ execOutcome' # "no_connection") =>
          LET queries == Queries(state.sql_query_generated)
              i == FirstStoreError(queries)
          IN  /\ i > 0 =>
                    /\ state'.error_message =
                           <<"SQL Execution Error: ", StoreExecute(queries[i]).text>>
                    /\ state'.result_for_sql_query = <<>>
                    /\ state'.sql_query_generated = state.sql_query_generated
                    /\ state'.curr_iteration = state.curr_iteration
              /\ (\A j \in 1..Len(queries) :
                      StoreExecute(queries[j]).kind \in {"rows", "norows"}) =>
                    state'.error_message = <<>>]_vars

\* a two-fragment statement whose second fragment failed in the store
C13_Witness ==
    /\ lastStage = "execute_sql"
    /\ execOutcome = "store_error"
    /\ Len(Queries(state.sql_query_generated)) = 2
    /\ FirstStoreError(Queries(state.sql_query_generated)) = 2
    /\ Truthy(state.error_message)
    /\ state.result_for_sql_query = <<>>

\* an Execute step that ends in the handler for unexpected errors
UnexpectedExecuteFailure ==
    /\ Executes("execute_sql")
    /\ execOutcome' \in {"no_connection", "unexpected"}

\* C14 (as claimed): an unexpected, non data-engine failure inside Execute,
\* such as the connection not being obtainable, ends the turn with an error
\* event and no later stage runs.
C14_UnexpectedFailureAborts ==
    [][UnexpectedExecuteFailure =>
          /\ phase' = "error"
          /\ node' = node]_vars

\* C14 (amended): an unexpected failure inside Execute is captured like a
\* store error: errorMessage holds "Unexpected Error: " and the error text,
\* queryResult is empty, sqlQuery and retryCount are unchanged, no error
\* event is emitted by the step, and the run continues to Correct while
\* retryCount <= 3 and to Analysis otherwise.
C14_UnexpectedFailureCaptured ==
    [][UnexpectedExecuteFailure =>
          /\ phase' = phase
          /\ Len(state'.error_message) = 2
          /\ state'.error_message[1] = "Unexpected Error: "
          /\ state'.result_for_sql_query = <<>>
          /\ state'.sql_query_generated = state.sql_query_generated
          /\ state'.curr_iteration = state.curr_iteration
          /\ node' = IF state.curr_iteration <= RouterRetryLimit
                     THEN "error_correction_agent"
                     ELSE "analysis_agent"]_vars

\* the connection could not be obtained and the run went on to Correct
C14_Witness ==
    /\ phase = "stream"
    /\ lastStage = "execute_sql"
    /\ execOutcome = "no_connection"
    /\ node = "error_correction_agent"
    /\ state.error_message = <<"Unexpected Error: ", "Database not found">>

\* the stages that call the model backend outside a try statement
BackendStages ==
    {"guardrails_agent", "sql_generation_agent", "error_correction_agent",
     "analysis_agent", "decide_visualization_agent"}

\* C15: once the backend call of Guardrails, SQLGen, Correct, Analysis or
\* VizDecide has failed, the run has stopped at that stage, the last event of
\* the turn is the error event, there is no final event, and no further
\* step of the turn is taken.
C15_BackendFailureAborts ==
    /\ [](failure # "none" =>
            /\ failure \in BackendStages
            /\ phase = "error"
            /\ node = failure
            /\ lastStage = failure
            /\ events[Len(events)] = ErrorEvent
            /\ \A i \in 1..Len(events) : events[i] # FinalEvent)
    /\ [][failure = "none"]_vars

\* the backend call of Analysis failed in the streamed run
C15_Witness ==
    /\ phase = "error"
    /\ failure = "analysis_agent"
    /\ Len(events) >= 2
    /\ events[Len(events) - 1] = NodeStart("analysis_agent")
    /\ events[Len(events)] = ErrorEvent

\* C16: no store connection is open in any state between two stages, and
\* every Execute step, whether it succeeds, fails in the store or fails
\* unexpectedly, returns with no connection open.
C16_ConnectionReleased ==
    /\ [](connections = 0)
    /\ [][Executes("execute_sql") =>
           /\ connections' = 0
           /\ acquired' = acquired + (IF execOutcome' = "no_connection" THEN 0 ELSE 1)]_vars

\* an Execute that had its connection and failed unexpectedly
C16_Witness ==
    /\ lastStage = "execute_sql"
    /\ execOutcome = "unexpected"
    /\ acquired >= 1
    /\ connections = 0

\* the nodes an edge of the graph leads to from node n
Successors(n) ==
    CASE n = "guardrails_agent" -> {AfterGuardrails(r) : r \in {"relevant", "end"}}
      [] n = "sql_generation_agent" -> {AfterSqlGeneration}
      [] n = "execute_sql" -> {AfterExecute(r) : r \in {"success", "retry", "end"}}
      [] n = "error_correction_agent" -> {AfterErrorCorrection}
      [] n = "analysis_agent" -> {AfterAnalysis}
      [] n = "decide_visualization_agent" ->
             {AfterDecideVisualization(r) : r \in {"visualize", "skip"}}
      [] n = "visualization_agent" -> {AfterVisualization}

IsTerminal(e) == e.type \in {"final", "error"}

\* C17: in the events of a turn every node_end directly follows the
\* node_start of the same node, a node_start is the first event or directly
\* follows a node_end, node_starts follow the edges of the graph from the
\* entry point, a terminal event (final or error) is the last event and
\* there is at most one and a finished turn has exactly one; a turn that has
\* not finished has a step to take, and every step brings the turn closer to
\* its terminal event, so that the terminal event is emitted.
EventsWellFormed ==
    /\ \A i \in 1..Len(events) :
          /\ events[i].type = "node_end" =>
                i > 1 /\ events[i - 1] = NodeStart(events[i].node)
          /\ events[i].type = "node_start" =>
                IF i = 1
                THEN events[i].node = EntryPoint
                ELSE /\ events[i - 1].type = "node_end"
                     /\ events[i].node \in Successors(events[i - 1].node)
          /\ IsTerminal(events[i]) => i = Len(events)
    /\ phase = "final" <=> (events # <<>> /\ events[Len(events)] = FinalEvent)
    /\ phase = "error" <=> (events # <<>> /\ events[Len(events)] = ErrorEvent)

\* the guard of some step of the turn holds
CanStep ==
    \/ \E n \in Nodes : CanRun(n)
    \/ phase = "stream" /\ node = END
    \/ phase = "invoke" /\ node = END
    \/ Running /\ node # END /\ steps >= RecursionLimit

\* an upper bound on the number of steps the turn can still take
StepsLeft ==
    CASE phase = "stream" ->
           (StreamRecursionLimit - steps) + InvokeRecursionLimit + 3
      [] phase = "invoke" -> (InvokeRecursionLimit - steps) + 1
      [] OTHER -> 0

C17_EventsWellFormed ==
    /\ []EventsWellFormed
    /\ [](Running => CanStep)
    /\ [][StepsLeft' < StepsLeft /\ StepsLeft' >= 0]_vars

\* a finished turn whose streamed run went through a correction
C17_Witness ==
    /\ phase = "final"
    /\ Len(events) >= 9
    /\ \E i \in 1..Len(events) : events[i] = NodeEnd("error_correction_agent")
    /\ events[Len(events)] = FinalEvent

\* C18 (as claimed): per turn Guardrails is executed at most once (exactly
\* once in a finished turn), SQLGen, Analysis, VizDecide and VizGen at most
\* once each, and Execute at most ceiling + 1 times.
C18_PipelineRunsOnce ==
    /\ turnInvoked["guardrails_agent"] <= 1
    /\ phase \in {"final", "error"} => turnInvoked["guardrails_agent"] = 1
    /\ \A n \in {"sql_generation_agent", "analysis_agent",
                  "decide_visualization_agent", "visualization_agent"} :
          turnInvoked[n] <= 1
    /\ turnInvoked["execute_sql"] <= ceiling + 1

\* C19: with a backend that is a function of its prompt and an unchanged
\* store, the second run of the pipeline on the same userQuery visits the
\* stages of the first run in the same order, never fails where the first
\* did not, and ends with the same sqlQuery, chartType, retryCount and
\* errorMessage.
C19_Deterministic ==
    streamRun.taken =>
        /\ phase # "error"
        /\ Len(path) <= Len(streamRun.path)
        /\ path = SubSeq(streamRun.path, 1, Len(path))
        /\ phase = "final" =>
              /\ path = streamRun.path
              /\ state.sql_query_generated = streamRun.state.sql_query_generated
              /\ state.type_of_plotly_figure = streamRun.state.type_of_plotly_figure
              /\ state.curr_iteration = streamRun.state.curr_iteration
              /\ state.error_message = streamRun.state.error_message

\* both runs went through two corrections and drew the chart
C19_Witness ==
    /\ phase = "final"
    /\ streamRun.taken
    /\ corrections = 2
    /\ path[Len(path)] = "visualization_agent"
    /\ state.type_of_plotly_figure = "bar"

\* C20: under every interleaving of the steps of two turns, a step of one
\* turn leaves the state of the other turn as it was, the two turns hold
\* different state references, and the state a turn finishes with is the
\* state the second run of the pipeline ends with when the turn runs alone
\* with the same backend and store answers.
C20_TurnsIndependent ==
    /\ [][\A t \in Turns : \A u \in Turns \ {t} :
            (lastTurn' = t /\ turns[u].phase # "new") =>
                /\ turns'[u] = turns[u]
                /\ heap'[turns[u].ref] = heap[turns[u].ref]]_vars
    /\ [](\A t \in Turns : \A u \in Turns \ {t} :
            (turns[t].phase # "new" /\ turns[u].phase # "new") =>
                turns[t].ref # turns[u].ref)
    /\ [](\A t \in Turns :
            turns[t].phase = "final" =>
                heap[turns[t].ref] =
                    RunAlone(InitialState(turns[t].user_query), EntryPoint,
                             turns[t].backend, dbExists, ceiling,
                             InvokeRecursionLimit))

\* one turn has finished after a correction while the other is in the
\* middle of its streamed run
C20_Witness ==
    /\ turns["first"].phase = "final"
    /\ heap[turns["first"].ref].curr_iteration = 3
    /\ turns["second"].phase = "stream"
    /\ turns["second"].node = "analysis_agent"
    /\ lastTurn = "second"

\* a graph run of the turn was aborted by the step limit
AbortedByLimit == phase = "error" /\ failure = "none"

\* C21 (as claimed): every graph run of a turn is bounded by one and the
\* same step limit: no run executes more stages than that limit, and a run
\* that is aborted by the limit, the streamed one or the second one, has
\* executed exactly that many stages.
C21_OneStepLimit ==
    /\ steps <= StreamRecursionLimit
    /\ AbortedByLimit => steps = StreamRecursionLimit

\* the fragments of a statement that hold more than whitespace, in order
NonEmptyFragments(sql_query) ==
    SelectSeq(Split(sql_query, Semi),
              LAMBDA q : \E i \in 1..Len(q) : q[i] # WS)

\* the positions of the block labels in a result text
LabelPositions(t) ==
    SelectSeq([i \in 1..Len(t) |-> i], LAMBDA i : t[i] = "Query ")

\* the result text holds the blocks Query 1 .. Query k, in this order, the
\* j-th carrying the j-th fragment without its surrounding whitespace
LabelledBlocks(t, frags) ==
    LET at == LabelPositions(t)
    IN  /\ Len(at) = Len(frags)
        /\ \A j \in 1..Len(at) :
               LET text == Strip(frags[j])
               IN  /\ t[at[j] + 1] = ToString(j)
                   /\ t[at[j] + 2] = ":[newline]"
                   /\ SubSeq(t, at[j] + 3, at[j] + 2 + Len(text)) = text

\* C22: when every fragment of a statement succeeds, a statement with k >= 2
\* non-empty fragments gives a result of exactly k blocks labelled Query 1 ..
\* Query k in statement order, each with its fragment text; empty fragments
\* take no index; a statement with a single fragment gives an unlabelled block.
C22_LabelledBlocks ==
    [][(Executes("execute_sql") /\ execOutcome' = "ok") =>
          LET frags == NonEmptyFragments(state.sql_query_generated)
              t == state'.result_for_sql_query
          IN  /\ Len(frags) >= 2 => LabelledBlocks(t, frags)
              /\ Len(frags) = 1 => LabelPositions(t) = <<>> /\ Truthy(t)]_vars

C22_Witness ==
    /\ lastStage = "execute_sql"
    /\ execOutcome = "ok"
    /\ state.sql_query_generated = <<SelectRows, Semi, WS, SelectEmpty, Semi>>
    /\ Len(LabelPositions(state.result_for_sql_query)) = 2

\* the delimiter lines of a result text that stand after its first block label
DelimitersBetweenBlocks(t) ==
    LET at == LabelPositions(t)
    IN  Cardinality({i \in 1..Len(t) :
                        /\ t[i] = Delimiter
                        /\ at # <<>>
                        /\ i > at[1]})

\* C23 (as claimed): when the k >= 2 non-empty fragments of a statement all
\* succeed, every two consecutive blocks of the result are separated by the
\* delimiter line: the result holds k - 1 delimiter lines between its blocks.
C23_DelimiterBetweenBlocks ==
    [][(Executes("execute_sql") /\ execOutcome' = "ok") =>
          LET frags == NonEmptyFragments(state.sql_query_generated)
          IN  Len(frags) >= 2 =>
                  DelimitersBetweenBlocks(state'.result_for_sql_query)
                      = Len(frags) - 1]_vars

\* the stages that may change each owned field of the state
Writers(field) ==
    CASE field = "user_query" -> {}
      [] field = "is_question_relavant" -> {"guardrails_agent"}
      [] field = "sql_query_generated" ->
             {"sql_generation_agent", "error_correction_agent"}
      [] field = "type_of_plotly_figure" -> {"decide_visualization_agent"}

OwnedFields ==
    {"user_query", "is_question_relavant", "sql_query_generated",
     "type_of_plotly_figure"}

\* C24: write ownership over every stage execution: the user query is never
\* changed (by no stage, and not between the two runs of a turn), the
\* relevance flag is changed only by Guardrails, the statement only by SQL
\* generation and error correction, the chart type only by the chart decision.
C24_WriteOwnership ==
    [][/\ state'.user_query = state.user_query
       /\ \A n \in Nodes : \A f \in OwnedFields :
              (Executes(n) /\ state'[f] # state[f]) => n \in Writers(f)]_vars

C24_Witness ==
    /\ lastStage = "visualization_agent"
    /\ ~state.needs_plotly_figure
    /\ state.type_of_plotly_figure = "bar"
    /\ state.is_question_relavant
    /\ Truthy(state.sql_query_generated)
    /\ invoked["error_correction_agent"] >= 1

\* a stage execution that changes the final answer
WritesFinalAnswer(n) ==
    Executes(n) /\ state'.final_answer # state.final_answer

\* once Guardrails has set a non-empty final answer the run is at its end
GuardrailsAnswerEndsRun ==
    (Executes("guardrails_agent") /\ Truthy(state'.final_answer) /\ phase' # "error")
        => node' = END

RetryCountStep(n) ==
    /\ state'.curr_iteration \in {state.curr_iteration, state.curr_iteration + 1}
    /\ state'.curr_iteration # state.curr_iteration =>
           \/ n = "sql_generation_agent"
           \/ n = "error_correction_agent" /\ state.curr_iteration <= ceiling
    /\ (n = "sql_generation_agent" /\ phase' # "error") =>
           state'.curr_iteration = 1

\* C26: in every graph run the attempt counter starts at 0, never decreases,
\* changes only by +1 and only in SQL generation and in a correction that is
\* not the guard path, is 1 after SQL generation, always equals the number of
\* times the statement was written, and with the default ceiling stays
\* within 0 .. ceiling + 1.
C26_RetryCount ==
    /\ []((Running /\ steps = 0) => state.curr_iteration = 0)
    /\ [](state.curr_iteration = generated + corrections)
    /\ [](ceiling = MAX_SQL_RETRY_ATTEMPTS =>
              state.curr_iteration \in 0..(ceiling + 1))
    /\ [][\A n \in Nodes : Executes(n) => RetryCountStep(n)]_vars

C26_Witness ==
    /\ ceiling = MAX_SQL_RETRY_ATTEMPTS
    /\ lastStage = "error_correction_agent"
    /\ corrections = 3
    /\ state.curr_iteration = ceiling + 1

\* the chart types a chart can be generated for
DrawableChartTypes == {"bar", "line", "pie", "scatter"}

\* C27 (as claimed): the chart type is one of bar, line, pie, scatter, none in
\* every reachable state, whatever the backend answers, and chart generation
\* is only ever entered with a chart type among bar, line, pie, scatter.
C27_ChartTypeInTaxonomy ==
    /\ state.type_of_plotly_figure \in DrawableChartTypes \cup {"none"}
    /\ (Running /\ node = "visualization_agent") =>
           state.type_of_plotly_figure \in DrawableChartTypes

\* the rest of a run from the chart decision on, for one answer of the
\* backend to the decision and one outcome of the chart generation
ChartTail(s, decision, chart) ==
    LET o == [decision |-> decision, chart |-> chart]
        decided == NodeStep(s, "decide_visualization_agent", o, dbExists, ceiling)
    IN  IF decided.node = "visualization_agent"
        THEN [route |-> decided.node,
              state |-> NodeStep(decided.state, "visualization_agent", o,
                                 dbExists, ceiling).state]
        ELSE [route |-> decided.node, state |-> decided.state]

\* C28: the chart hint written by Analysis does not influence the outcome:
\* from the state Analysis left, and from the state that differs from it only
\* in the hint, the same backend answers give the same route after the chart
\* decision and the same final chart flag, chart type and chart JSON.
C28_HintIgnored ==
    (Running /\ node = "decide_visualization_agent"
             /\ lastStage = "analysis_agent") =>
        \A decision \in VisualizationDecisionResponses :
        \A chart \in VisualizationOutcomes :
            LET other == [state EXCEPT !.needs_plotly_figure = ~@]
                a == ChartTail(state, decision, chart)
                b == ChartTail(other, decision, chart)
            IN  /\ a.route = b.route
                /\ a.state.needs_plotly_figure = b.state.needs_plotly_figure
                /\ a.state.type_of_plotly_figure = b.state.type_of_plotly_figure
                /\ a.state.plotly_figure_json_string
                       = b.state.plotly_figure_json_string

C28_Witness ==
    /\ Running
    /\ node = "decide_visualization_agent"
    /\ lastStage = "analysis_agent"
    /\ state.needs_plotly_figure
    /\ SkipVisualizationDecision(state)
    /\ ~decide_visualization_skip(state).needs_plotly_figure

\* whether the store rejects a fragment
StoreRejects(fragment) ==
    StoreExecute(Strip(fragment)).kind \in {"error", "unexpected"}

\* the fragments the store must have been sent: all of them in statement
\* order, or those up to and including the first one the store rejects
ExpectedSent(frags) ==
    LET failing == {i \in 1..Len(frags) : StoreRejects(frags[i])}
        last == IF failing = {} THEN Len(frags)
                ELSE CHOOSE i \in failing : \A j \in failing : i <= j
    IN  [j \in 1..last |-> Strip(frags[j])]

\* C29: with a connection, Execute sends the fragments to the store strictly
\* in statement order and stops at the first failing one: the later
\* fragments are never sent, and the result text is empty, without the
\* blocks of the fragments that succeeded before the failure.
C29_StopsAtFirstFailure ==
    [][(Executes("execute_sql") /\ dbExists) =>
          LET frags == NonEmptyFragments(state.sql_query_generated)
              run == RunQueries(Queries(state.sql_query_generated), 0, <<>>, <<>>)
          IN  /\ run.sent = ExpectedSent(frags)
              /\ (\E i \in 1..Len(frags) : StoreRejects(frags[i])) =>
                     /\ state'.result_for_sql_query = <<>>
                     /\ Truthy(state'.error_message)
                     /\ execOutcome' # "ok"]_vars

C29_Witness ==
    /\ lastStage = "execute_sql"
    /\ dbExists
    /\ state.sql_query_generated
           = <<SelectRows, Semi, BadTable, Semi, SelectEmpty>>
    /\ state.result_for_sql_query = <<>>
    /\ RunQueries(Queries(state.sql_query_generated), 0, <<>>, <<>>).sent
           = <<<<SelectRows>>, <<BadTable>>>>

\* neither an error message nor a result text is present
NoErrorNoResult ==
    ~Truthy(state.error_message) /\ ~Truthy(state.result_for_sql_query)

\* C30: the error message and the result text are never both non-empty;
\* right after every Execute exactly one of them is non-empty, the result
\* text on success and the error message on failure; and once a run has
\* executed a statement both are empty only between a correction by the
\* error correction stage and the next Execute.
C30_ErrorXorResult ==
    /\ ~(Truthy(state.error_message) /\ Truthy(state.result_for_sql_query))
    /\ lastStage = "execute_sql" =>
           /\ Truthy(state.error_message) # Truthy(state.result_for_sql_query)
           /\ Truthy(state.result_for_sql_query) <=> execOutcome = "ok"
    /\ (invoked["execute_sql"] >= 1 /\ NoErrorNoResult) =>
           /\ lastStage = "error_correction_agent"
           /\ corrections >= 1
           /\ node = "execute_sql"

C30_Witness ==
    /\ invoked["execute_sql"] >= 2
    /\ NoErrorNoResult
    /\ lastStage = "error_correction_agent"
    /\ node = "execute_sql"

\* error correction is the next stage to execute
AtCorrect == Running /\ node = "error_correction_agent"

AtEndPastGuardrails == AtEnd /\ invoked["sql_generation_agent"] >= 1

\* the last Execute of the run failed
LastExecuteFailed == execOutcome \in {"store_error", "unexpected", "no_connection"}

\* C32: at the end of a run that passed Guardrails the error message is
\* non-empty exactly if the last Execute failed; it is then the error of that
\* Execute, the result text is empty, the chart flag is false, the chart type
\* is none, the chart JSON is empty, and Analysis ran exactly once, with the
\* error present.
C32_ErrorAtEnd ==
    /\ [](AtEndPastGuardrails =>
             /\ Truthy(state.error_message) <=> LastExecuteFailed
             /\ LastExecuteFailed =>
                    /\ state.error_message
                           = execute_sql(state, dbExists).error_message
                    /\ state.result_for_sql_query = <<>>
                    /\ ~state.needs_plotly_figure
                    /\ state.type_of_plotly_figure = "none"
                    /\ state.plotly_figure_json_string = <<>>
                    /\ invoked["analysis_agent"] = 1
                    /\ invoked["visualization_agent"] = 0)
    /\ [][(Executes("analysis_agent") /\ LastExecuteFailed) =>
             /\ Truthy(state.error_message)
             /\ invoked["analysis_agent"] = 0
             /\ state'.error_message = state.error_message]_vars

C32_Witness ==
    /\ AtEndPastGuardrails
    /\ LastExecuteFailed
    /\ Truthy(state.error_message)
    /\ invoked["analysis_agent"] = 1
    /\ invoked["decide_visualization_agent"] = 1

\* the stages whose completion event was emitted in the turn
StagesWithEvents ==
    {events[i].node : i \in {j \in 1..Len(events) : events[j].type = "node_end"}}

\* the stages whose execution produced the current state
StagesOfState == {path[i] : i \in 1..Len(path)}

\* C33 (as claimed): the state carried by the final event is the state the
\* stage executions with emitted events produced: its statement is the one
\* written by the last SQL generation or correction whose completion event
\* was emitted, and the stages with emitted events are the stages that
\* produced it, for any backend.
C33_FinalStateOfStreamedRun ==
    phase = "final" =>
        /\ streamRun.taken
        /\ state.sql_query_generated = streamRun.state.sql_query_generated
        /\ StagesWithEvents = StagesOfState

\* the last Execute succeeded and no fragment of the statement returned a row
SucceededWithoutRows ==
    /\ execOutcome = "ok"
    /\ LET frags == NonEmptyFragments(state.sql_query_generated)
       IN  \A i \in 1..Len(frags) :
               StoreExecute(Strip(frags[i])).kind = "norows"

\* C34 (as claimed): whenever Execute succeeded without any fragment
\* returning a row (one fragment without rows, several fragments each
\* without rows, or no fragment at all), the chart decision short-circuits
\* without a backend call and chart generation is not invoked.
C34_NoRowsNoChart ==
    /\ [][(Executes("decide_visualization_agent") /\ SucceededWithoutRows) =>
             /\ backendCalls' = backendCalls
             /\ phase' # "error"
             /\ node' = END]_vars
    /\ [](SucceededWithoutRows => invoked["visualization_agent"] = 0)

\* a chart JSON is present only after a successful chart generation on a
\* wanted chart and a non-empty result without error
ChartJsonJustified ==
    Truthy(state.plotly_figure_json_string) =>
        /\ invoked["visualization_agent"] = 1
        /\ lastStage = "visualization_agent"
        /\ state.needs_plotly_figure
        /\ state.type_of_plotly_figure # "none"
        /\ ~Truthy(state.error_message)
        /\ Truthy(state.result_for_sql_query)

\* C35 (as claimed): in every reachable state a non-empty chart JSON implies
\* that chart generation ran and succeeded, the chart flag is true, the chart
\* type is not none, the error message is empty and the result text is
\* non-empty; and at the end of a run a true chart flag implies a non-empty
\* chart JSON.
C35_ChartConsistent ==
    /\ ChartJsonJustified
    /\ (AtEnd /\ state.needs_plotly_figure) =>
           Truthy(state.plotly_figure_json_string)

\* what must hold when stage n is invoked, for the order of the stages
Precedence(n) ==
    /\ n = "execute_sql" =>
           /\ generated >= 1
           /\ state.curr_iteration >= 1
    /\ n = "error_correction_agent" =>
           /\ lastStage = "execute_sql"
           /\ execOutcome # "ok"
           /\ Truthy(state.error_message)
    /\ n = "analysis_agent" => lastStage = "execute_sql"
    /\ n \in {"sql_generation_agent", "execute_sql", "error_correction_agent"} =>
           /\ invoked["analysis_agent"] = 0
           /\ invoked["decide_visualization_agent"] = 0
           /\ invoked["visualization_agent"] = 0
    /\ n \in {"analysis_agent", "decide_visualization_agent",
               "visualization_agent"} => invoked[n] = 0
    /\ n = "decide_visualization_agent" => lastStage = "analysis_agent"
    /\ n = "visualization_agent" => lastStage = "decide_visualization_agent"

\* C36: within one run Execute is not invoked before SQL generation wrote a
\* statement; error correction is invoked only directly after a failed
\* Execute; Analysis only directly after an Execute; after Analysis neither
\* Execute, error correction nor SQL generation runs again; Analysis, the
\* chart decision and chart generation run at most once each, in this order.
C36_StagePrecedence ==
    [][\A n \in Nodes : Executes(n) => Precedence(n)]_vars

C36_Witness ==
    /\ phase = "final"
    /\ corrections >= 1
    /\ invoked["execute_sql"] >= 2
    /\ invoked["analysis_agent"] = 1
    /\ invoked["decide_visualization_agent"] = 1
    /\ invoked["visualization_agent"] = 1

\* C37: with the default ceiling, and every backend and store call returning
\* with success or failure, every run of the graph terminates: a run that is
\* not at its end can always execute its next stage, each stage execution
\* counts, and no run executes more than 12 stages, so it reaches End or
\* aborts with a failure without ever meeting the step limit.  (The longest
\* run: Guardrails, SQL generation, four Executes with three corrections,
\* Analysis and the two chart stages.)
C37_DefaultRunTerminates ==
    /\ [](ceiling = MAX_SQL_RETRY_ATTEMPTS =>
             /\ steps <= 12
             /\ ~AbortedByLimit
             /\ (Running /\ node # END) => \E n \in Nodes : CanRun(n))
    /\ [][(ceiling = MAX_SQL_RETRY_ATTEMPTS /\ Running /\ node # END) =>
             \/ steps' = steps + 1 /\ (phase' \in {phase, "error"})
             \/ UNCHANGED vars]_vars

C37_Witness ==
    /\ ceiling = MAX_SQL_RETRY_ATTEMPTS
    /\ AtEnd
    /\ steps = 12
    /\ lastStage = "visualization_agent"

\* the result text and the error message are those Execute gives for the
\* current statement
OutcomeOfCurrentStatement ==
    LET executed == execute_sql(state, dbExists)
    IN  /\ invoked["execute_sql"] >= 1
        /\ state.result_for_sql_query = executed.result_for_sql_query
        /\ state.error_message = executed.error_message

\* C38: when Analysis is invoked, and at the end of a run that passed
\* Guardrails, the result text or error message in the state was produced by
\* the most recent Execute and belongs to the current statement: the
\* statement is not overwritten between the last Execute and Analysis, nor
\* afterwards.
C38_OutcomeBelongsToStatement ==
    /\ [](((Running /\ node = "analysis_agent") \/ AtEndPastGuardrails) =>
             OutcomeOfCurrentStatement)
    /\ [][Executes("analysis_agent") =>
             /\ lastStage = "execute_sql"
             /\ state'.sql_query_generated = state.sql_query_generated
             /\ state'.result_for_sql_query = state.result_for_sql_query
             /\ state'.error_message = state.error_message]_vars

C38_Witness ==
    /\ Running
    /\ node = "analysis_agent"
    /\ corrections >= 1
    /\ state.sql_query_generated = <<SelectRows>>
    /\ Truthy(state.result_for_sql_query)

\* the router's third branch: no answer and not relevant
DefensiveFallback(s) == ~Truthy(s.final_answer) /\ ~s.is_question_relavant

\* C39: when Guardrails returns, the final answer is empty exactly if the
\* question was classified relevant and not a greeting; so the router after
\* Guardrails never meets a state with an empty final answer and a false
\* relevance flag, and its last branch is not taken.
C39_FallbackUnreachable ==
    [][(Executes("guardrails_agent") /\ phase' # "error") =>
          /\ grResp'.answered
          /\ ~Truthy(state'.final_answer) <=>
                 (grResp'.is_question_relavant /\ ~grResp'.is_greeting)
          /\ state'.is_question_relavant = grResp'.is_question_relavant
          /\ ~DefensiveFallback(state')
          /\ node' = (IF Truthy(state'.final_answer) THEN END
                      ELSE "sql_generation_agent")]_vars

C39_Witness ==
    /\ lastStage = "guardrails_agent"
    /\ grResp.answered
    /\ grResp.is_greeting
    /\ grResp.is_question_relavant
    /\ state.final_answer = GreetingReply
    /\ AtEnd

====
